---- MODULE Spec2Model ----
(***************************************************************************)
(* Model of download.py: run() walks a fixed list of years and calls       *)
(* download_copernicus(boundary_box, year) for each; download_copernicus   *)
(* checks the credentials, then for each dataset id of the year creates    *)
(* the output directory, builds the copernicusmarine command line and runs *)
(* it as a blocking subprocess.                                            *)
(*                                                                         *)
(* The program counter pc follows the single Python thread.  The sequences *)
(* calls, made and dcOutcome are the record a spy on subprocess.run,       *)
(* os.makedirs and download_copernicus would keep.                         *)
(***************************************************************************)
EXTENDS Integers, Sequences, FiniteSets, TLC

VARIABLES
    entry,        \* "run": the script's main; "call": download_copernicus called directly
    environ,      \* os.environ restricted to the two credential variables
    dirs,         \* dataset output directories that exist on disk
    pc,           \* position of the Python thread
    yi,           \* run(): index of the current year in years
    year,         \* download_copernicus: the year argument
    dataset_ids,  \* download_copernicus: local list of dataset ids
    di,           \* download_copernicus: index of the current dataset id
    cmd,          \* download_copernicus: the command line built for the current dataset
    calls,        \* every subprocess.run invocation so far, with its outcome
    made,         \* every os.makedirs call that succeeded so far
    dcOutcome,    \* how each download_copernicus call ended so far
    raised        \* the exception that ended the program, or NoException

vars == <<entry, environ, dirs, pc, yi, year, dataset_ids, di, cmd, calls,
          made, dcOutcome, raised>>

----------------------------------------------------------------------------
(* Bounds of the model *)

\* exit statuses the external tool may return are 0..MaxExitCode
MaxExitCode == 2
\* years a direct call of download_copernicus is tried with
MinYear == 2004
MaxYear == 2022

----------------------------------------------------------------------------
(* Constants of the program *)

PHY_MYINT == "cmems_mod_glo_phy_myint_0.083deg_P1D-m"
PHY_MY == "cmems_mod_glo_phy_my_0.083deg_P1D-m"
BGC_MY == "cmems_mod_glo_bgc_my_0.25deg_P1D-m"

output_directory == "data"

years == <<2005, 2006, 2012, 2013, 2015, 2021>>

\* the boundary box of run(), in tenths of a degree
boundary_box == [lat_min |-> 240, lat_max |-> 310, lon_min |-> -920, lon_max |-> -860]

CredVars == {"CMEMS_USERNAME", "CMEMS_PASSWORD"}

NoException == "none"
Running == "running"
Exited == "exited"
\* returncode of a process that has not exited (None)
NoReturnCode == -1

\* exceptions subprocess.run raises when the process cannot be started
SpawnErrors == {"FileNotFoundError", "PermissionError"}

----------------------------------------------------------------------------
(* Pure helpers *)

\* str() of a float with one decimal digit, given in tenths
StrFloat(t) ==
    LET a == IF t < 0 THEN -t ELSE t
    IN  (IF t < 0 THEN "-" ELSE "") \o ToString(a \div 10) \o "." \o ToString(a % 10)

\* os.path.join(output_directory, dataset_id)
PathJoin(a, b) == a \o "/" \o b

DatasetIds_Mutant(y) ==
    IF y = 2012 THEN <<PHY_MYINT, BGC_MY>> ELSE <<PHY_MY, BGC_MY>>

\* the dataset ids of a year
DatasetIds(y) ==
    IF y = 2021 THEN <<PHY_MYINT, BGC_MY>> ELSE <<PHY_MY, BGC_MY>>

CredentialsAvailable_Mutant(env) ==
    "CMEMS_USERNAME" \in DOMAIN env

\* negation of the test that guards the early return
CredentialsAvailable(env) ==
    "CMEMS_USERNAME" \in DOMAIN env /\ "CMEMS_PASSWORD" \in DOMAIN env

DepthArgs_Mutant(dataset_id) ==
    IF dataset_id = BGC_MY
    THEN <<"--minimum-depth", "0.49402499198913574", "--maximum-depth", "0.5057600140571594">>
    ELSE <<"--minimum-depth", "0.49402499198913574", "--maximum-depth", "0.49402499198913574">>

\* the depth arguments appended to the command
DepthArgs(dataset_id) ==
    IF dataset_id = BGC_MY
    THEN <<"--minimum-depth", "0.5057600140571594", "--maximum-depth", "0.5057600140571594">>
    ELSE <<"--minimum-depth", "0.49402499198913574", "--maximum-depth", "0.49402499198913574">>

\* the command line for one dataset; evaluated only when both credentials are set
BuildCmd(box, y, dataset_id, env) ==
    << "copernicusmarine", "subset",
       "--dataset-id=" \o dataset_id,
       "--minimum-longitude", StrFloat(box.lon_min),
       "--maximum-longitude", StrFloat(box.lon_max),
       "--minimum-latitude", StrFloat(box.lat_min),
       "--maximum-latitude", StrFloat(box.lat_max),
       "--file-format", "netcdf",
       "--output-directory", PathJoin(output_directory, dataset_id),
       "--start-datetime", ToString(y) \o "-08-01T00:00:00",
       "--end-datetime", ToString(y) \o "-10-31T23:59:59",
       "--overwrite",
       "--username", env["CMEMS_USERNAME"],
       "--password", env["CMEMS_PASSWORD"] >>
    \o DepthArgs(dataset_id)

\* the message of the exception run() raises for a year
FailureMessage(y) == "Failed to download Copernicus data for " \o ToString(y)

----------------------------------------------------------------------------
(* Initial states *)

EnvValue(n) == IF n = "CMEMS_USERNAME" THEN "user" ELSE "secret"

Init ==
    /\ entry \in {"run", "call"}
    /\ environ \in { [n \in D |-> EnvValue(n)] : D \in SUBSET CredVars }
    /\ dirs \in SUBSET { PathJoin(output_directory, d) : d \in {PHY_MYINT, PHY_MY, BGC_MY} }
    /\ yi = 1
    /\ year \in IF entry = "run" THEN {0} ELSE MinYear..MaxYear
    /\ pc = IF entry = "run" THEN "run_loop" ELSE "dc_entry"
    /\ dataset_ids = <<>>
    /\ di = 1
    /\ cmd = <<>>
    /\ calls = <<>>
    /\ made = <<>>
    /\ dcOutcome = <<>>
    /\ raised = NoException

----------------------------------------------------------------------------
(* Leaving download_copernicus *)

\* return value v: back in run() at the test of success, or the direct call is over
Return(v) ==
    /\ dcOutcome' = Append(dcOutcome, [year |-> year, value |-> v])
    /\ pc' = IF entry = "run" THEN "run_check" ELSE "done"
    /\ UNCHANGED raised

\* exception e leaves download_copernicus; run() has no handler, so it ends the program
Escape(e) ==
    /\ dcOutcome' = Append(dcOutcome, [year |-> year, value |-> e])
    /\ pc' = "done"
    /\ raised' = e

----------------------------------------------------------------------------
(* run() *)

\* for year in years: success = download_copernicus(boundary_box, year)
RunNextYear ==
    /\ pc = "run_loop"
    /\ yi <= Len(years)
    /\ year' = years[yi]
    /\ pc' = "dc_entry"
    /\ UNCHANGED <<entry, environ, dirs, yi, dataset_ids, di, cmd, calls, made,
                   dcOutcome, raised>>

\* the loop is exhausted: run() returns normally
RunComplete ==
    /\ pc = "run_loop"
    /\ yi > Len(years)
    /\ pc' = "done"
    /\ UNCHANGED <<entry, environ, dirs, yi, year, dataset_ids, di, cmd, calls,
                   made, dcOutcome, raised>>

RunCheckSuccess_Mutant ==
    /\ pc = "run_check"
    /\ yi' = yi + 1
    /\ pc' = "run_loop"
    /\ UNCHANGED <<entry, environ, dirs, year, dataset_ids, di, cmd, calls, made,
                   dcOutcome, raised>>

\* if not success: raise Exception(...); otherwise go on with the next year
RunCheckSuccess ==
    /\ pc = "run_check"
    /\ IF dcOutcome[Len(dcOutcome)].value = "False"
       THEN /\ raised' = FailureMessage(year)
            /\ pc' = "done"
            /\ UNCHANGED yi
       ELSE /\ yi' = yi + 1
            /\ pc' = "run_loop"
            /\ UNCHANGED raised
    /\ UNCHANGED <<entry, environ, dirs, year, dataset_ids, di, cmd, calls, made,
                   dcOutcome>>

----------------------------------------------------------------------------
(* download_copernicus(boundary_box, year) *)

\* choice of dataset_ids, the box fields and the two datetimes
DcSelectDatasets ==
    /\ pc = "dc_entry"
    /\ dataset_ids' = DatasetIds(year)
    /\ pc' = "dc_creds"
    /\ UNCHANGED <<entry, environ, dirs, yi, year, di, cmd, calls, made,
                   dcOutcome, raised>>

\* the credential check: return False when a variable is missing
DcCheckCredentials ==
    /\ pc = "dc_creds"
    /\ IF CredentialsAvailable(environ)
       THEN /\ pc' = "dc_loop"
            /\ di' = 1
            /\ UNCHANGED <<dcOutcome, raised>>
       ELSE /\ Return("False")
            /\ UNCHANGED di
    /\ UNCHANGED <<entry, environ, dirs, yi, year, dataset_ids, cmd, calls, made>>

DcReturnTrue_Mutant ==
    /\ pc = "dc_loop"
    /\ di > 1
    /\ Return("True")
    /\ UNCHANGED <<entry, environ, dirs, yi, year, dataset_ids, di, cmd, calls, made>>

\* the dataset loop is exhausted: return True
DcReturnTrue ==
    /\ pc = "dc_loop"
    /\ di > Len(dataset_ids)
    /\ Return("True")
    /\ UNCHANGED <<entry, environ, dirs, yi, year, dataset_ids, di, cmd, calls, made>>

\* os.makedirs(dataset_output_dir, exist_ok=True) succeeds
DcMakedirsOk ==
    /\ pc = "dc_loop"
    /\ di <= Len(dataset_ids)
    /\ dirs' = dirs \cup {PathJoin(output_directory, dataset_ids[di])}
    /\ made' = Append(made, [year |-> year,
                             path |-> PathJoin(output_directory, dataset_ids[di])])
    /\ pc' = "dc_build"
    /\ UNCHANGED <<entry, environ, yi, year, dataset_ids, di, cmd, calls,
                   dcOutcome, raised>>

\* os.makedirs raises OSError; the call is outside the try block
DcMakedirsError ==
    /\ pc = "dc_loop"
    /\ di <= Len(dataset_ids)
    /\ Escape("OSError")
    /\ UNCHANGED <<entry, environ, dirs, yi, year, dataset_ids, di, cmd, calls, made>>

\* the command list is built inside the try block; a missing environment
\* variable raises KeyError there, which except Exception turns into False
DcBuildCmd ==
    /\ pc = "dc_build"
    /\ IF CredVars \subseteq DOMAIN environ
       THEN /\ cmd' = BuildCmd(boundary_box, year, dataset_ids[di], environ)
            /\ pc' = "dc_spawn"
            /\ UNCHANGED <<dcOutcome, raised>>
       ELSE /\ Return("False")
            /\ UNCHANGED cmd
    /\ UNCHANGED <<entry, environ, dirs, yi, year, dataset_ids, di, calls, made>>

\* subprocess.run(cmd, check=True) starts the process and blocks
SubprocessStart ==
    /\ pc = "dc_spawn"
    /\ calls' = Append(calls, [year |-> year, cmd |-> cmd, status |-> Running,
                             returncode |-> NoReturnCode])
    /\ pc' = "dc_wait"
    /\ UNCHANGED <<entry, environ, dirs, yi, year, dataset_ids, di, cmd, made,
                   dcOutcome, raised>>

SubprocessSpawnError_Mutant ==
    /\ pc = "dc_spawn"
    /\ \E e \in SpawnErrors :
          calls' = Append(calls, [year |-> year, cmd |-> cmd, status |-> e,
                                   returncode |-> NoReturnCode])
    /\ di' = di + 1
    /\ pc' = "dc_loop"
    /\ UNCHANGED <<entry, environ, dirs, yi, year, dataset_ids, cmd, made,
                   dcOutcome, raised>>

\* subprocess.run cannot start the process: except Exception, return False
SubprocessSpawnError ==
    /\ pc = "dc_spawn"
    /\ \E e \in SpawnErrors :
          calls' = Append(calls, [year |-> year, cmd |-> cmd, status |-> e,
                                   returncode |-> NoReturnCode])
    /\ Return("False")
    /\ UNCHANGED <<entry, environ, dirs, yi, year, dataset_ids, di, cmd, made>>

ProcessExitZero_Mutant ==
    /\ pc = "dc_wait"
    /\ calls' = [calls EXCEPT ![Len(calls)].status = Exited,
                             ![Len(calls)].returncode = 0]
    /\ pc' = "dc_loop"
    /\ UNCHANGED <<entry, environ, dirs, yi, year, dataset_ids, di, cmd, made,
                   dcOutcome, raised>>

\* the process exits with status zero: next dataset
ProcessExitZero ==
    /\ pc = "dc_wait"
    /\ calls' = [calls EXCEPT ![Len(calls)].status = Exited,
                             ![Len(calls)].returncode = 0]
    /\ di' = di + 1
    /\ pc' = "dc_loop"
    /\ UNCHANGED <<entry, environ, dirs, yi, year, dataset_ids, cmd, made,
                   dcOutcome, raised>>

ProcessExitNonZero_Mutant ==
    /\ pc = "dc_wait"
    /\ \E rc \in 1..MaxExitCode :
          calls' = [calls EXCEPT ![Len(calls)].status = Exited,
                                   ![Len(calls)].returncode = rc]
    /\ di' = di + 1
    /\ pc' = "dc_loop"
    /\ UNCHANGED <<entry, environ, dirs, yi, year, dataset_ids, cmd, made,
                   dcOutcome, raised>>

\* the process exits non-zero: except CalledProcessError, return False
ProcessExitNonZero ==
    /\ pc = "dc_wait"
    /\ \E rc \in 1..MaxExitCode :
          calls' = [calls EXCEPT ![Len(calls)].status = Exited,
                                   ![Len(calls)].returncode = rc]
    /\ Return("False")
    /\ UNCHANGED <<entry, environ, dirs, yi, year, dataset_ids, di, cmd, made>>

----------------------------------------------------------------------------

Next ==
    \/ RunNextYear
    \/ RunComplete
    \/ RunCheckSuccess
    \/ DcSelectDatasets
    \/ DcCheckCredentials
    \/ DcReturnTrue
    \/ DcMakedirsOk
    \/ DcMakedirsError
    \/ DcBuildCmd
    \/ SubprocessStart
    \/ SubprocessSpawnError
    \/ ProcessExitZero
    \/ ProcessExitNonZero

Spec == Init /\ [][Next]_vars

----------------------------------------------------------------------------
(* Vocabulary of the properties *)

DONE == pc = "done"

\* the two physics dataset ids and the biogeochemistry id, as the tool sees them
PhysicsArgs == {"--dataset-id=cmems_mod_glo_phy_myint_0.083deg_P1D-m",
                "--dataset-id=cmems_mod_glo_phy_my_0.083deg_P1D-m"}
BgcArg == "--dataset-id=cmems_mod_glo_bgc_my_0.25deg_P1D-m"

\* the dataset-id arguments expected for a year
ExpectedArgs(y) ==
    IF y = 2021
    THEN {"--dataset-id=cmems_mod_glo_phy_myint_0.083deg_P1D-m", BgcArg}
    ELSE {"--dataset-id=cmems_mod_glo_phy_my_0.083deg_P1D-m", BgcArg}

\* the directories expected for a year
ExpectedDirs(y) ==
    IF y = 2021
    THEN {"data/cmems_mod_glo_phy_myint_0.083deg_P1D-m", "data/cmems_mod_glo_bgc_my_0.25deg_P1D-m"}
    ELSE {"data/cmems_mod_glo_phy_my_0.083deg_P1D-m", "data/cmems_mod_glo_bgc_my_0.25deg_P1D-m"}

YearList == <<2005, 2006, 2012, 2013, 2015, 2021>>

YearText(y) ==
    CASE y = 2005 -> "2005" [] y = 2006 -> "2006" [] y = 2012 -> "2012"
      [] y = 2013 -> "2013" [] y = 2015 -> "2015" [] y = 2021 -> "2021"
      [] OTHER -> "?"

\* position of a year in the fixed list (0 when it is not in it)
YearIndex(y) ==
    IF \E k \in 1..Len(YearList) : YearList[k] = y
    THEN CHOOSE k \in 1..Len(YearList) : YearList[k] = y
    ELSE 0

\* the dataset-id argument of an invocation
IdArg(c) == c.cmd[3]

\* the value following option opt in a command line ("" when absent)
OptionValue(c, opt) ==
    IF \E p \in 1..(Len(c) - 1) : c[p] = opt
    THEN c[(CHOOSE p \in 1..(Len(c) - 1) : c[p] = opt) + 1]
    ELSE ""

Succeeded(c) == c.status = "exited" /\ c.returncode = 0
InFlight(c) == c.status = "running"
ExitedNonZero(c) == c.status = "exited" /\ c.returncode # 0
FailedToStart(c) == c.status \in {"FileNotFoundError", "PermissionError"}

CallsOfYear(y) == SelectSeq(calls, LAMBDA c : c.year = y)
MadeOfYear(y) == SelectSeq(made, LAMBDA m : m.year = y)

CredentialMissing ==
    "CMEMS_USERNAME" \notin DOMAIN environ \/ "CMEMS_PASSWORD" \notin DOMAIN environ

LastOutcome == dcOutcome[Len(dcOutcome)]

\* control is inside the dataset loop of download_copernicus
InDatasetLoop == pc \in {"dc_loop", "dc_build", "dc_spawn", "dc_wait"}

----------------------------------------------------------------------------
(* C1: with a credential variable absent, download_copernicus returns False *)
(* for every year, and no subprocess is invoked and no dataset output       *)
(* directory is created.                                                    *)
C1_MissingCredentialsFailFast ==
    CredentialMissing =>
        /\ calls = <<>>
        /\ made = <<>>
        /\ ~InDatasetLoop
        /\ \A k \in 1..Len(dcOutcome) : dcOutcome[k].value = "False"
        /\ DONE => Len(dcOutcome) = 1

C1_Witness ==
    /\ CredentialMissing
    /\ entry = "call"
    /\ year = 2021
    /\ DONE
    /\ dcOutcome = <<[year |-> 2021, value |-> "False"]>>
    /\ calls = <<>>

----------------------------------------------------------------------------
(* C2: when the process of the first dataset of a year exits non-zero, the  *)
(* second dataset of that year is never attempted and the call returns      *)
(* False.                                                                   *)
C2_FirstDatasetFailureAborts ==
    \A i \in 1..Len(calls) :
        (ExitedNonZero(calls[i]) /\ IdArg(calls[i]) \in PhysicsArgs) =>
            /\ i = Len(calls)
            /\ Len(CallsOfYear(calls[i].year)) = 1
            /\ Len(MadeOfYear(calls[i].year)) = 1
            /\ ~InDatasetLoop
            /\ LastOutcome = [year |-> calls[i].year, value |-> "False"]

C2_Witness ==
    /\ DONE
    /\ Len(calls) = 3
    /\ ExitedNonZero(calls[3])
    /\ IdArg(calls[3]) \in PhysicsArgs
    /\ LastOutcome.value = "False"

----------------------------------------------------------------------------
(* C3: run() takes the years 2005, 2006, 2012, 2013, 2015, 2021 in that     *)
(* order; once download_copernicus has returned False for a year Y, run()   *)
(* raises the error naming Y and stops, and no subprocess is invoked for a  *)
(* later year.                                                              *)
C3_RunHaltsAtFirstFailedYear ==
    entry = "run" =>
        /\ Len(dcOutcome) <= Len(YearList)
        /\ \A k \in 1..Len(dcOutcome) : dcOutcome[k].year = YearList[k]
        /\ \A i \in 1..Len(calls) : YearIndex(calls[i].year) \in 1..(Len(dcOutcome) + 1)
        /\ \A i, j \in 1..Len(calls) :
              i < j => YearIndex(calls[i].year) <= YearIndex(calls[j].year)
        /\ \A k \in 1..Len(dcOutcome) :
              dcOutcome[k].value = "False" =>
                  /\ k = Len(dcOutcome)
                  /\ pc \in {"run_check", "done"}
                  /\ DONE => raised = "Failed to download Copernicus data for "
                                        \o YearText(dcOutcome[k].year)
                  /\ \A i \in 1..Len(calls) : YearIndex(calls[i].year) <= k
        /\ (raised \notin {"none", "OSError"}) =>
              (DONE /\ dcOutcome # <<>> /\ LastOutcome.value = "False")

C3_Witness ==
    /\ entry = "run"
    /\ DONE
    /\ Len(dcOutcome) = 3
    /\ dcOutcome[3] = [year |-> 2012, value |-> "False"]
    /\ raised = "Failed to download Copernicus data for 2012"
    /\ Len(calls) = 5

----------------------------------------------------------------------------
----------------------------------------------------------------------------
(* C5: past the credential check every error inside download_copernicus,    *)
(* a failure to create the output directory included, becomes a False       *)
(* return value; no exception leaves download_copernicus.                   *)
C5_NoExceptionEscapes ==
    /\ \A k \in 1..Len(dcOutcome) : dcOutcome[k].value \in {"True", "False"}
    /\ raised # "OSError"

----------------------------------------------------------------------------
(* C6: an error of the process invocation other than a non-zero exit (the   *)
(* tool cannot be started) ends the call like a non-zero exit: it returns   *)
(* False and the remaining datasets of the year are not attempted.          *)
C6_OtherInvocationErrorAborts ==
    \A i \in 1..Len(calls) :
        FailedToStart(calls[i]) =>
            /\ i = Len(calls)
            /\ ~InDatasetLoop
            /\ LastOutcome = [year |-> calls[i].year, value |-> "False"]
            /\ IdArg(calls[i]) \in PhysicsArgs =>
                  /\ Len(CallsOfYear(calls[i].year)) = 1
                  /\ Len(MadeOfYear(calls[i].year)) = 1

C6_Witness ==
    /\ DONE
    /\ Len(calls) = 1
    /\ calls[1].status = "FileNotFoundError"
    /\ IdArg(calls[1]) \in PhysicsArgs
    /\ LastOutcome.value = "False"

----------------------------------------------------------------------------
(* C7: the dataset ids passed to the tool for year 2021 are the interim     *)
(* physics id and the biogeochemistry id, for every other year the          *)
(* multi-year physics id and the biogeochemistry id, and no other id is     *)
(* ever passed.                                                             *)
C7_DatasetIdsByYear ==
    /\ \A i \in 1..Len(calls) : IdArg(calls[i]) \in ExpectedArgs(calls[i].year)
    /\ \A k \in 1..Len(dcOutcome) :
          dcOutcome[k].value = "True" =>
              LET cs == CallsOfYear(dcOutcome[k].year)
              IN  {IdArg(cs[i]) : i \in 1..Len(cs)} = ExpectedArgs(dcOutcome[k].year)

C7_Witness ==
    /\ entry = "run"
    /\ DONE
    /\ raised = "none"
    /\ Len(calls) = 12
    /\ IdArg(calls[11]) = "--dataset-id=cmems_mod_glo_phy_myint_0.083deg_P1D-m"
    /\ IdArg(calls[5]) = "--dataset-id=cmems_mod_glo_phy_my_0.083deg_P1D-m"

----------------------------------------------------------------------------
(* C8: in every invocation --minimum-depth equals --maximum-depth; both are *)
(* 0.5057600140571594 for the biogeochemistry id and 0.49402499198913574    *)
(* for every other id.                                                      *)
C8_DepthArguments ==
    \A i \in 1..Len(calls) :
        LET c == calls[i].cmd
        IN  /\ OptionValue(c, "--minimum-depth") = OptionValue(c, "--maximum-depth")
            /\ OptionValue(c, "--minimum-depth") =
                  IF c[3] = BgcArg THEN "0.5057600140571594" ELSE "0.49402499198913574"

C8_Witness ==
    /\ Len(calls) >= 2
    /\ OptionValue(calls[1].cmd, "--maximum-depth") = "0.49402499198913574"
    /\ OptionValue(calls[2].cmd, "--maximum-depth") = "0.5057600140571594"

----------------------------------------------------------------------------
(* C9: each (year, dataset id) pair is passed to the tool at most once, at  *)
(* most one process is in flight, and an invocation happens only after      *)
(* every earlier dataset of every earlier year and of its own year has      *)
(* exited with status zero.                                                 *)
C9_SequentialNoRetry ==
    /\ \A i, j \in 1..Len(calls) :
          (calls[i].year = calls[j].year /\ IdArg(calls[i]) = IdArg(calls[j])) => i = j
    /\ Cardinality({i \in 1..Len(calls) : InFlight(calls[i])}) <= 1
    /\ \A i \in 1..Len(calls) : InFlight(calls[i]) <=> (pc = "dc_wait" /\ i = Len(calls))
    /\ \A i, j \in 1..Len(calls) : i < j => Succeeded(calls[i])
    /\ entry = "run" =>
          \A i \in 1..Len(calls) :
              /\ calls[i].year = YearList[(i + 1) \div 2]
              /\ IdArg(calls[i]) \in (IF i % 2 = 1 THEN PhysicsArgs ELSE {BgcArg})
    /\ entry = "call" =>
          \A i \in 1..Len(calls) :
              /\ i <= 2
              /\ IdArg(calls[i]) \in (IF i = 1 THEN PhysicsArgs ELSE {BgcArg})

C9_Witness ==
    /\ entry = "run"
    /\ pc = "dc_wait"
    /\ Len(calls) = 12
    /\ InFlight(calls[12])
    /\ \A i \in 1..11 : Succeeded(calls[i])

----------------------------------------------------------------------------
(* C10: run() ends in one of two final states: SUCCEEDED, without an        *)
(* exception, after all 6 years and all 12 invocations exited zero; or      *)
(* FAILED, by raising the fatal error for the first year whose              *)
(* download_copernicus call returned False.                                 *)
SUCCEEDED ==
    /\ raised = "none"
    /\ Len(dcOutcome) = 6
    /\ \A k \in 1..6 : dcOutcome[k] = [year |-> YearList[k], value |-> "True"]
    /\ Len(calls) = 12
    /\ \A i \in 1..12 : Succeeded(calls[i])

FAILED ==
    /\ dcOutcome # <<>>
    /\ LastOutcome.value = "False"
    /\ \A k \in 1..(Len(dcOutcome) - 1) : dcOutcome[k].value = "True"
    /\ raised = "Failed to download Copernicus data for " \o YearText(LastOutcome.year)

C10_RunEndsSucceededOrFailed ==
    (entry = "run" /\ DONE) => ((SUCCEEDED /\ ~FAILED) \/ (FAILED /\ ~SUCCEEDED))

====
